---------------------------- MODULE Spec2Model ----------------------------
(***************************************************************************)
(* A model of the Alexa skill in src/lambda: the audio pipeline            *)
(* synthesize() of lambda_function.py and the EdgeTTSClient of edgetts.py. *)
(*                                                                         *)
(* A Python str is a sequence of pieces [s, n]: the text s repeated n      *)
(* times.  Ordinary strings are one piece with n = 1; only the base64 text *)
(* of a long payload has runs.  An f-string is the concatenation of its    *)
(* parts.  A bytes payload is a sequence of bytes followed by a run of     *)
(* zero bytes, so that payloads around the 100,000 byte inline limit stay  *)
(* small values.                                                           *)
(***************************************************************************)
EXTENDS Integers, Sequences, FiniteSets, TLC

\* ------------------------------------------------------------------ bounds

\* Longest explicit byte prefix of a payload.
MaxHead == 3

\* Number of distinct clock readings int(time.time()) can return.
MaxTime == 2

\* ----------------------------------------------------------------- strings

Tok(str, k) == [s |-> str, n |-> k]

\* A Python str: the empty sequence, or tokens none of which is empty.
S(str) == IF str = "" THEN <<>> ELSE <<Tok(str, 1)>>

Min(a, b) == IF a < b THEN a ELSE b

\* a + b, as one string: two plain pieces that meet become one piece.
Cat(a, b) ==
    IF a = <<>> THEN b
    ELSE IF b = <<>> THEN a
    ELSE IF a[Len(a)].n = 1 /\ b[1].n = 1
    THEN SubSeq(a, 1, Len(a) - 1)
         \o <<Tok(a[Len(a)].s \o b[1].s, 1)>>
         \o SubSeq(b, 2, Len(b))
    ELSE a \o b

Cat3(a, b, c) == Cat(Cat(a, b), c)

Cat4(a, b, c, d) == Cat(Cat3(a, b, c), d)

Cat5(a, b, c, d, e) == Cat(Cat4(a, b, c, d), e)

RECURSIVE CharLen(_)
\* len(str)
CharLen(str) ==
    IF str = <<>> THEN 0
    ELSE Len(Head(str).s) * Head(str).n + CharLen(Tail(str))

\* The first k characters of the piece tok.
TakeTok(tok, k) ==
    LET w    == Len(tok.s)
        full == k \div w
        part == k % w
    IN  (IF full > 0 THEN <<Tok(tok.s, full)>> ELSE <<>>)
        \o (IF part > 0 THEN <<Tok(SubSeq(tok.s, 1, part), 1)>> ELSE <<>>)

RECURSIVE Take(_, _)
\* str[:k]
Take(str, k) ==
    IF str = <<>> \/ k <= 0 THEN <<>>
    ELSE LET w == Len(Head(str).s) * Head(str).n
         IN  IF w <= k THEN <<Head(str)>> \o Take(Tail(str), k - w)
             ELSE TakeTok(Head(str), k)

IsSpaceAt(str, i) == SubSeq(str, i, i) \in {" ", "\t", "\n"}

RECURSIVE LStripS(_)
LStripS(str) ==
    IF Len(str) = 0 THEN str
    ELSE IF IsSpaceAt(str, 1) THEN LStripS(SubSeq(str, 2, Len(str)))
    ELSE str

RECURSIVE RStripS(_)
RStripS(str) ==
    IF Len(str) = 0 THEN str
    ELSE IF IsSpaceAt(str, Len(str)) THEN RStripS(SubSeq(str, 1, Len(str) - 1))
    ELSE str

\* text.strip(), of a text of one plain piece
Strip(text) ==
    IF text = <<>> THEN <<>> ELSE S(RStripS(LStripS(text[1].s)))

\* ---------------------------------------------------------------- payloads

RECURSIVE SeqsUpTo(_, _)
SeqsUpTo(A, k) ==
    IF k = 0 THEN {<<>>}
    ELSE LET shorter == SeqsUpTo(A, k - 1)
         IN  shorter \cup {Append(q, x) : q \in shorter, x \in A}

Zeros(k) == [i \in 1..k |-> 0]

\* The bytes head followed by `zeros` zero bytes.
Payload(head, zeros) == [head |-> head, zeros |-> zeros]

\* len(audio_data)
PLen(p) == Len(p.head) + p.zeros

RECURSIVE StripZeros(_)
StripZeros(bs) ==
    IF bs = <<>> THEN <<>>
    ELSE IF bs[Len(bs)] = 0 THEN StripZeros(SubSeq(bs, 1, Len(bs) - 1))
    ELSE bs

\* One representative of every payload that denotes the same bytes.
Canon(p) ==
    LET h == StripZeros(p.head)
    IN  Payload(h, p.zeros + (Len(p.head) - Len(h)))

\* ------------------------------------------------------------------ base64

InlineLimit == 100000

Alphabet ==
    << "A","B","C","D","E","F","G","H","I","J","K","L","M","N","O","P",
       "Q","R","S","T","U","V","W","X","Y","Z","a","b","c","d","e","f",
       "g","h","i","j","k","l","m","n","o","p","q","r","s","t","u","v",
       "w","x","y","z","0","1","2","3","4","5","6","7","8","9","+","/" >>

B64Char(v) == Alphabet[v + 1]

\* Three bytes to four characters.
Enc3(b1, b2, b3) ==
    B64Char(b1 \div 4)
    \o B64Char((b1 % 4) * 16 + (b2 \div 16))
    \o B64Char((b2 % 16) * 4 + (b3 \div 64))
    \o B64Char(b3 % 64)

RECURSIVE EncBytes(_)
\* The base64 text of a byte sequence, "=" padded.
EncBytes(bs) ==
    IF Len(bs) = 0 THEN ""
    ELSE IF Len(bs) = 1
    THEN B64Char(bs[1] \div 4) \o B64Char((bs[1] % 4) * 16) \o "=="
    ELSE IF Len(bs) = 2
    THEN B64Char(bs[1] \div 4)
         \o B64Char((bs[1] % 4) * 16 + (bs[2] \div 16))
         \o B64Char((bs[2] % 16) * 4)
         \o "="
    ELSE Enc3(bs[1], bs[2], bs[3]) \o EncBytes(SubSeq(bs, 4, Len(bs)))

\* base64.b64encode(audio_data).decode("utf-8"): the head, filled up with zero
\* bytes of the run to a multiple of three, is encoded byte by byte; every
\* further three zero bytes are one "AAAA"; the rest of the run is the tail.
b64encode(p) ==
    LET h    == Len(p.head)
        take == Min((3 - (h % 3)) % 3, p.zeros)
        m    == p.zeros - take
    IN  Cat3(S(EncBytes(p.head \o Zeros(take))),
             IF m \div 3 > 0 THEN <<Tok("AAAA", m \div 3)>> ELSE <<>>,
             S(EncBytes(Zeros(m % 3))))

\* ------------------------------------------------------- results of a call

\* A call returns a value or raises: [ok, val, type, msg].
Ret(v) == [ok |-> TRUE, val |-> v, type |-> "", msg |-> <<>>]

Raise(type, msg) == [ok |-> FALSE, val |-> <<>>, type |-> type, msg |-> msg]

\* The size check with >= : a payload of exactly the limit is refused.
create_data_uri_ge(audio_data) ==
    IF PLen(audio_data) >= InlineLimit
    THEN Raise("Exception",
               S("Audio file too large for data URI. Please configure S3 bucket."))
    ELSE Ret(Cat(S("data:audio/mpeg;base64,"), b64encode(audio_data)))

\* EdgeTTSClient._create_data_uri
create_data_uri(audio_data) ==
    IF PLen(audio_data) > InlineLimit
    THEN Raise("Exception",
               S("Audio file too large for data URI. Please configure S3 bucket."))
    ELSE Ret(Cat(S("data:audio/mpeg;base64,"), b64encode(audio_data)))

\* -------------------------------------------------------------- the world

\* int(time.time())
ClockReadings == {1700000000 + i : i \in 0..(MaxTime - 1)}

\* What a collaborator may raise: [type, msg].
Err(type, msg) == [type |-> type, msg |-> S(msg)]

NoErr == Err("", "")

\* Errors of the synthesis engine and of the file system under /tmp.
EngineErrors ==
    { Err("ClientConnectorError", "Cannot connect to host speech.platform.bing.com:443"),
      Err("TimeoutError", "Connection timeout to host") }

\* Errors of the object store: botocore's ClientError and one that is not.
PutErrors ==
    { Err("ClientError",
          "An error occurred (AccessDenied) when calling the PutObject operation: Access Denied"),
      Err("EndpointConnectionError", "Could not connect to the endpoint URL") }

\* The outcomes of s3_client.put_object: NoErr is success.
PutOutcomes == {NoErr} \cup PutErrors

\* Every exception type but CancelledError is caught by `except Exception`.
IsException(type) == type # "CancelledError"

\* hashlib.md5(text.encode()).hexdigest()[:8], of the texts used here.
Md5Hex8(text) ==
    CASE text = S("You're good enough, you're smart enough, and dog gone it, people like you!")
           -> "e11ad55b"
      [] text = S("Goodbye for now!") -> "bc53e6b8"
      [] text = S("Ask me to motivate you! Diagnostic: EdgeTTS is available") -> "4eef0ac8"
      [] text = S("Ask me to motivate you! Diagnostic: EdgeTTS NOT installed: No module named 'edge_tts'")
           -> "8bc3289d"
      [] text = S("Sorry; I can't help with that. Only you can help you. You can ask me to motivate you.")
           -> "a14bddc7"
      [] text = S("Ask me to say something.") -> "8ca461ef"
      [] text = S("Sorry, there was a problem. Please try again!") -> "87f62a11"
      [] text = S("") -> "d41d8cd9"
      [] text = S("   ") -> "628631f0"
      [] text = S("Hi") -> "c1a5298f"
      [] OTHER -> "ffffffff"

\* One event of a call's history: the operation, the tier it belongs to, what
\* happened, the number of bytes (or the path index) and whether it succeeded.
Ev(op, tier, what, len, ok) ==
    [op |-> op, tier |-> tier, what |-> what, len |-> len, ok |-> ok]

\* -------------------------------------------------------------- edgetts.py

\* EdgeTTSClient.__init__: the client, or the ImportError when edge_tts is
\* not installed, or what boto3.client raised.
NoClient == [set |-> FALSE, voice |-> "", s3_bucket |-> <<>>, s3_region |-> "", s3_client |-> FALSE]

EdgeTTSClient(voice, s3_bucket, s3_region, edge_ok, boto_ok, clientErr) ==
    IF ~edge_ok
    THEN Raise("ImportError", S("edge-tts is not installed. Please add it to requirements.txt"))
    ELSE IF s3_bucket # <<>> /\ boto_ok /\ clientErr # NoErr
    THEN Raise(clientErr.type, clientErr.msg)
    ELSE Ret([set |-> TRUE, voice |-> voice, s3_bucket |-> s3_bucket,
              s3_region |-> s3_region,
              s3_client |-> (s3_bucket # <<>> /\ boto_ok)])

\* tempfile.NamedTemporaryFile(suffix='.mp3', dir='/tmp').name: a fresh name.
TempName(files) == "/tmp/tmp" \o ToString(Cardinality(files)) \o ".mp3"

\* The outcomes of `await communicate.save(temp_file_path)` and of the reads
\* after it: the engine raises, the 15 s timeout cancels the await, or the
\* save returns with the file missing or holding `data` (read back as `data`,
\* or, for "empty_read", as nothing).
SaveOutcomes(payloads) ==
    {[kind |-> "save_error", err |-> e, data |-> Payload(<<>>, 0)] : e \in EngineErrors}
    \cup {[kind |-> k, err |-> NoErr, data |-> Payload(<<>>, 0)] : k \in {"timeout", "file_missing"}}
    \cup {[kind |-> k, err |-> NoErr, data |-> d] : k \in {"saved", "empty_read"}, d \in payloads}

\* The inner try without its checks of the file and of the bytes read: what
\* was read is returned, empty or not.
SaveBodyUnchecked(path, out) ==
    CASE out.kind = "timeout" -> Raise("CancelledError", <<>>)
      [] out.kind = "save_error" ->
            Raise("Exception", Cat(S("Failed to save audio file: "), out.err.msg))
      [] out.kind = "file_missing" ->
            Raise("Exception", Cat(S("Temp file was not created at "), S(path)))
      [] out.kind = "empty_read" -> Ret(Payload(<<>>, 0))
      [] OTHER -> Ret(out.data)

\* The body of the inner try of _synthesize_async, from the await on.
SaveBody(path, out) ==
    CASE out.kind = "timeout" -> Raise("CancelledError", <<>>)
      [] out.kind = "save_error" ->
            Raise("Exception", Cat(S("Failed to save audio file: "), out.err.msg))
      [] out.kind = "file_missing" ->
            Raise("Exception", Cat(S("Temp file was not created at "), S(path)))
      [] OTHER ->
            IF PLen(out.data) = 0
            THEN Raise("Exception", S("File was created but is empty (0 bytes)"))
            ELSE IF out.kind = "empty_read"
            THEN Raise("Exception",
                       Cat3(S("File exists but read returned empty data. File size: "),
                            S(ToString(PLen(out.data))), S(" bytes")))
            ELSE Ret(out.data)

\* The files left once the save is over: the engine may have removed the file.
AfterSave(files, path, out) ==
    IF out.kind = "file_missing" THEN files \ {path} ELSE files

\* The clean-up in an `except Exception` clause instead of `finally`: it is
\* skipped when the await is cancelled.
CleanupInExcept(files, path, r) ==
    IF (r.ok \/ IsException(r.type)) /\ path # "" /\ path \in files
    THEN files \ {path} ELSE files

\* The finally clause of _synthesize_async, run whatever the result r of the
\* try body: os.unlink(temp_file_path) when the file exists.  The unlink of
\* the call's own file under /tmp is taken to succeed; the code logs a
\* failure of it and goes on.
Finally(files, path, r) ==
    IF path # "" /\ path \in files THEN files \ {path} ELSE files

\* A bare `raise` in the outer except clause: the engine's own exception
\* leaves _synthesize_async as it is.
WrapAsyncBare(r, voice, text) == r

\* The outer `except Exception` of _synthesize_async.
WrapAsync(r, voice, text) ==
    IF ~r.ok /\ IsException(r.type)
    THEN Raise("Exception",
               Cat5(S("EdgeTTS synthesis error: "), r.msg, S(". Voice: "), S(voice),
                    Cat(S(", Text length: "), S(ToString(CharLen(text))))))
    ELSE r

\* asyncio.wait_for(coro, timeout=15.0): a cancelled coroutine is a timeout.
WaitFor(r) ==
    IF ~r.ok /\ r.type = "CancelledError" THEN Raise("TimeoutError", <<>>) ELSE r

\* The try statement with the timeout clause only: every other exception
\* leaves synthesize as it was raised.
SynthesizeTryTimeoutOnly(r) ==
    IF ~r.ok /\ r.type = "TimeoutError"
    THEN Raise("Exception",
               S("EdgeTTS synthesis timed out after 15 seconds. This might indicate a network issue or the service is slow."))
    ELSE IF r.ok /\ PLen(r.val) = 0
    THEN Raise("Exception",
               S("No audio was received. Please verify that your parameters are correct."))
    ELSE r

\* The try statement of EdgeTTSClient.synthesize around run_until_complete.
SynthesizeTry(r) ==
    IF ~r.ok /\ r.type = "TimeoutError"
    THEN Raise("Exception",
               S("EdgeTTS synthesis timed out after 15 seconds. This might indicate a network issue or the service is slow."))
    ELSE IF ~r.ok /\ IsException(r.type)
    THEN Raise("Exception", Cat(S("EdgeTTS synthesis failed: "), r.msg))
    ELSE IF r.ok /\ PLen(r.val) = 0
    THEN Raise("Exception",
               Cat(S("EdgeTTS synthesis failed: "),
                   S("No audio was received. Please verify that your parameters are correct.")))
    ELSE r

\* https://{bucket}.s3.{region}.amazonaws.com/{key}
S3Url(bucket, region, key) ==
    Cat5(S("https://"), bucket, S(".s3."), S(region), Cat(S(".amazonaws.com/"), key))

\* EdgeTTSClient._upload_to_s3: only a ClientError is wrapped.
upload_to_s3(self, audio_data, text, now, put) ==
    LET filename == Cat5(S("tts/"), S(ToString(now)), S("_"), S(Md5Hex8(text)), S(".mp3"))
    IN  IF put = NoErr THEN Ret(S3Url(self.s3_bucket, self.s3_region, filename))
        ELSE IF put.type = "ClientError"
        THEN Raise("Exception", Cat(S("Failed to upload audio to S3: "), put.msg))
        ELSE Raise(put.type, put.msg)

\* ------------------------------------------------------ lambda_function.py

VOICE == "en-CA-LiamNeural"

S3_REGION == "us-east-1"

\* The default of os.environ.get("GITHUB_AUDIO_URL", ...).
DefaultAudioUrl ==
    S("https://raw.githubusercontent.com/Jarvis4everyone/alexa/main/speech.mp3")

RESPONSE ==
    S("You're good enough, you're smart enough, and dog gone it, people like you!")

SKILL_NAME == S("Custom TTS Voice")

\* The dict synthesize returns.
Synth(audio, text) == [audio |-> audio, text |-> text]

NoSynth == Synth(<<>>, <<>>)

\* f'<audio src="{url}"/>'
AudioTag(url) == Cat3(S("<audio src=\""), url, S("\"/>"))

\* Lines 69-78: the configured URL, used as it is.
StaticResult(url, text) == Synth(AudioTag(url), text)

\* audio_file_paths, in the order they are tried.
audio_file_paths ==
    << "/var/task/speech.mp3", "/var/task/lambda/speech.mp3",
       "dirname(__file__)/speech.mp3", "speech.mp3" >>

\* A bundled file longer than the inline limit.
BundledAudio == Payload(<<255>>, 2 * InlineLimit)

\* What a candidate path may hold.
FileStates ==
    { [kind |-> "missing", data |-> Payload(<<>>, 0)],
      [kind |-> "unreadable", data |-> Payload(<<>>, 0)],
      [kind |-> "file", data |-> Payload(<<>>, 0)],
      [kind |-> "file", data |-> BundledAudio] }

FileSystems == [1..Len(audio_file_paths) -> FileStates]

NoFiles == [i \in 1..Len(audio_file_paths) |-> [kind |-> "missing", data |-> Payload(<<>>, 0)]]

RECURSIVE ReadFrom(_, _)
\* The for loop of lines 93-102 from path i on: a path that does not exist is
\* skipped, one that cannot be opened or read is skipped by the except
\* clause, and the first one read ends the loop, whatever its length.
ReadFrom(fs, i) ==
    IF i > Len(audio_file_paths) THEN [found |-> FALSE, path |-> 0, data |-> Payload(<<>>, 0)]
    ELSE IF fs[i].kind = "missing" THEN ReadFrom(fs, i + 1)
    ELSE IF fs[i].kind = "unreadable" THEN ReadFrom(fs, i + 1)
    ELSE [found |-> TRUE, path |-> i, data |-> fs[i].data]

ReadBundled(fs) == ReadFrom(fs, 1)

\* The check of the bytes read left out: any file found is uploaded.
HaveBundledAnyLength(b) == b.found

\* `if audio_data and len(audio_data) > 0`
HaveBundled(b) == b.found /\ PLen(b.data) > 0

\* Lines 106-135: the upload of the bundled file; every failure is raised as
\* "S3 upload failed: ...".
BundledPut(bucket, text, now, boto_ok, clientErr, put) ==
    LET s3_key == Cat5(S("tts/speech_"), S(ToString(now)), S("_"), S(Md5Hex8(text)), S(".mp3"))
        failed(msg) == Raise("Exception", Cat(S("S3 upload failed: "), msg))
    IN  IF ~boto_ok THEN failed(S("No module named 'boto3'"))
        ELSE IF clientErr # NoErr THEN failed(clientErr.msg)
        ELSE IF put # NoErr THEN failed(put.msg)
        ELSE Ret(Synth(AudioTag(S3Url(bucket, S3_REGION, s3_key)), text))

\* The except clause with show_error ignored: the cause is always appended.
NativeFallbackAlwaysDiag(text, show_error, error_msg) ==
    Synth(Cat5(S("<speak>"), text, S(". Error: EdgeTTS Error: "), Take(error_msg, 100),
               S("</speak>")),
          Cat3(text, S(" - ERROR: "), error_msg))

\* The except clause without the [:100] slice: the whole cause is spoken.
NativeFallbackUntruncated(text, show_error, error_msg) ==
    IF show_error
    THEN Synth(Cat5(S("<speak>"), text, S(". Error: EdgeTTS Error: "), error_msg, S("</speak>")),
               Cat3(text, S(" - ERROR: "), error_msg))
    ELSE Synth(Cat3(S("<speak>"), text, S("</speak>")), text)

\* Lines 160-180: the except clause of the synthesis tier.
NativeFallback(text, show_error, error_msg) ==
    IF show_error
    THEN LET error_text == Cat(S("EdgeTTS Error: "), Take(error_msg, 100))
         IN  Synth(Cat5(S("<speak>"), text, S(". Error: "), error_text, S("</speak>")),
                   Cat3(text, S(" - ERROR: "), error_msg))
    ELSE Synth(Cat3(S("<speak>"), text, S("</speak>")), text)

\* The response a handler builds: speak, ask, the card and the session flag.
Response(speak, reprompt, title, card, end_session) ==
    [speak |-> speak, reprompt |-> reprompt, card_title |-> title,
     card_text |-> card, end_session |-> end_session]

NoResponse == Response(<<>>, <<>>, <<>>, <<>>, "none")

\* _create_response
create_response(synthesized, end_session) ==
    Response(synthesized.audio, <<>>, SKILL_NAME, synthesized.text,
             IF end_session THEN "true" ELSE "false")

\* The text of help_intent_handler.
HelpText(edge_ok) ==
    Cat(S("Ask me to motivate you! Diagnostic: "),
        IF edge_ok THEN S("EdgeTTS is available")
        ELSE S("EdgeTTS NOT installed: No module named 'edge_tts'"))

FallbackSpeech ==
    S("Sorry; I can't help with that. Only you can help you. You can ask me to motivate you.")

FallbackReprompt == S("Ask me to say something.")

ExceptionSpeech == S("Sorry, there was a problem. Please try again!")

\* Texts of direct calls of synthesize: plain, blank and empty.
CallTexts == {S("Hi"), S("   "), S("")}

\* What the engine may write: nothing, one byte, and payloads at the limit.
EnginePayloads ==
    {Payload(h, z) : h \in {<<>>, <<255>>}, z \in {0, InlineLimit - 1, InlineLimit}}

\* ------------------------------------------------------------------- state

VARIABLES
    GITHUB_AUDIO_URL,   \* module global, read from the environment at import
    S3_BUCKET,          \* module global; <<>> is None
    edge_tts,           \* whether `import edge_tts` succeeds
    boto3,              \* whether `import boto3` succeeds
    tts,                \* module global of lambda_function.py: the lazy client
    tmp_files,          \* the scratch files that exist under /tmp
    handler,            \* the request handler that is running, "none" when idle
    stage,              \* which synthesize call of the handler is running
    first,              \* the result of the handler's first synthesize call
    response,           \* the response of the last handler that finished
    pc,                 \* where the running synthesize call is
    text,               \* synthesize: text
    show_error,         \* synthesize: show_error
    audio_data,         \* the bytes read or synthesized
    temp_file_path,     \* _synthesize_async: temp_file_path, "" is None
    error_msg,          \* str(e) of the exception the synthesis tier raised
    error_type,         \* ... and the type of that exception, "" when none
    ret,                \* what synthesize returns
    files,              \* the candidate paths as the running call found them
    log,                \* history of the running call
    uri_arg,            \* _create_data_uri called on its own: audio_data
    uri_res,            \* ... and what it returned or raised
    uri_done,           \* ... once it has been called
    audio_files_cache,  \* AudioSourceCache: the memoized listing, if any
    list_log            \* AudioSourceCache: one entry per list() call

config == <<GITHUB_AUDIO_URL, S3_BUCKET, edge_tts, boto3>>

request == <<handler, stage, first, response>>

frame == <<text, show_error, audio_data, temp_file_path, error_msg, error_type, ret, files>>

\* The state of the components that are checked on their own.
aside == <<uri_arg, uri_res, uri_done, audio_files_cache, list_log>>

vars == <<config, tts, tmp_files, request, pc, frame, log, aside>>

\* AudioFileCache before the first successful fetch.
NoListing == [set |-> FALSE, names |-> <<>>]

\* A fresh process: the module has been imported, no request has run.
Boot ==
    /\ tts = NoClient
    /\ tmp_files = {}
    /\ handler = "none"
    /\ stage = 0
    /\ first = NoSynth
    /\ response = NoResponse
    /\ pc = "idle"
    /\ text = <<>>
    /\ show_error = FALSE
    /\ audio_data = Payload(<<>>, 0)
    /\ temp_file_path = ""
    /\ error_msg = <<>>
    /\ error_type = ""
    /\ ret = NoSynth
    /\ files = NoFiles
    /\ log = <<>>

\* The components checked on their own, not in use.
AsideIdle ==
    /\ uri_arg = Payload(<<>>, 0)
    /\ uri_res = Ret(<<>>)
    /\ uri_done = FALSE
    /\ audio_files_cache = NoListing
    /\ list_log = <<>>

Init ==
    /\ GITHUB_AUDIO_URL \in {<<>>, DefaultAudioUrl}
    /\ S3_BUCKET \in {<<>>, S("my-bucket")}
    /\ edge_tts \in BOOLEAN
    /\ boto3 \in BOOLEAN
    /\ Boot
    /\ AsideIdle

\* synthesize(t, se) is entered.
Enter(t, se) ==
    /\ pc' = "static"
    /\ text' = t
    /\ show_error' = se
    /\ audio_data' = Payload(<<>>, 0)
    /\ temp_file_path' = ""
    /\ error_msg' = <<>>
    /\ error_type' = ""
    /\ ret' = NoSynth
    /\ files' = NoFiles
    /\ log' = <<>>

\* A handler starts with its first synthesize call; the response of the
\* request before has been sent.
Begin(h, t, se) ==
    /\ pc = "idle"
    /\ handler' = h
    /\ stage' = 1
    /\ first' = NoSynth
    /\ response' = NoResponse
    /\ Enter(t, se)
    /\ UNCHANGED <<aside, config, tts, tmp_files>>

\* ---------------------------------------------------------------- handlers

launch_request_handler == Begin("launch", RESPONSE, TRUE)

motivate_intent_handler == Begin("motivate", RESPONSE, FALSE)

help_intent_handler == Begin("help", HelpText(edge_tts), TRUE)

\* The cancel handler with diagnostics switched on.
cancel_with_diagnostics == Begin("cancel", S("Goodbye for now!"), TRUE)

cancel_and_stop_intent_handler == Begin("cancel", S("Goodbye for now!"), FALSE)

fallback_handler == Begin("fallback", FallbackSpeech, FALSE)

all_exception_handler == Begin("exception", ExceptionSpeech, FALSE)

\* synthesize called with any text and either diagnostics setting.
DirectCall == \E t \in CallTexts, se \in BOOLEAN : Begin("call", t, se)

\* The fallback handler without its second call: the result of the first
\* call is the speech and the reprompt.
ResumeOneCall ==
    /\ pc = "return"
    /\ IF FALSE
       THEN /\ first' = ret
            /\ stage' = 2
            /\ Enter(FallbackReprompt, FALSE)
            /\ UNCHANGED <<handler, response>>
       ELSE /\ response' =
                CASE handler \in {"launch", "motivate"} -> create_response(ret, TRUE)
                  [] handler \in {"help", "cancel"} -> create_response(ret, FALSE)
                  [] handler = "fallback" ->
                        Response(ret.audio, ret.audio, <<>>, <<>>, "none")
                  [] handler = "exception" ->
                        Response(ret.audio, ret.audio, <<>>, <<>>, "none")
                  [] OTHER -> response
            /\ handler' = "none"
            /\ stage' = 0
            /\ first' = NoSynth
            /\ pc' = "idle"
            /\ text' = <<>>
            /\ show_error' = FALSE
            /\ audio_data' = Payload(<<>>, 0)
            /\ temp_file_path' = ""
            /\ error_msg' = <<>>
            /\ error_type' = ""
            /\ ret' = NoSynth
            /\ files' = NoFiles
            /\ log' = <<>>
    /\ UNCHANGED <<aside, config, tts, tmp_files>>

\* The handler goes on once its synthesize call has returned.
Resume ==
    /\ pc = "return"
    /\ IF handler = "fallback" /\ stage = 1
       THEN /\ first' = ret
            /\ stage' = 2
            /\ Enter(FallbackReprompt, FALSE)
            /\ UNCHANGED <<handler, response>>
       ELSE /\ response' =
                CASE handler \in {"launch", "motivate"} -> create_response(ret, TRUE)
                  [] handler \in {"help", "cancel"} -> create_response(ret, FALSE)
                  [] handler = "fallback" ->
                        Response(first.audio, ret.audio, <<>>, <<>>, "none")
                  [] handler = "exception" ->
                        Response(ret.audio, ret.audio, <<>>, <<>>, "none")
                  [] OTHER -> response
            /\ handler' = "none"
            /\ stage' = 0
            /\ first' = NoSynth
            /\ pc' = "idle"
            /\ text' = <<>>
            /\ show_error' = FALSE
            /\ audio_data' = Payload(<<>>, 0)
            /\ temp_file_path' = ""
            /\ error_msg' = <<>>
            /\ error_type' = ""
            /\ ret' = NoSynth
            /\ files' = NoFiles
            /\ log' = <<>>
    /\ UNCHANGED <<aside, config, tts, tmp_files>>

\* session_ended_request_handler: an empty response, no synthesis.
session_ended_request_handler ==
    /\ pc = "idle"
    /\ response' = NoResponse
    /\ UNCHANGED <<aside, config, tts, tmp_files, handler, stage, first, pc, frame, log>>

\* ------------------------------------------------- the tiers of synthesize

TierStart(tier) == Ev("start", tier, "", 0, TRUE)

TierSkip(tier, why) == Ev("skip", tier, why, 0, FALSE)

TierFail(tier, why) == Ev("fail", tier, why, 0, FALSE)

TierYield(tier) == Ev("yield", tier, "", 0, TRUE)

\* Errors of boto3.client(...).
ClientErrors == {Err("InvalidRegionError", "Provided region_name doesn't match a supported format.")}

\* A narrower except clause: only the wrapped failures are caught.
CaughtWrappedOnly(r) == IF r.type = "Exception" THEN "fallback" ELSE "raised"

\* Line 160, `except Exception as e`: where a failure r of the synthesis tier
\* goes, to the except clause or out of synthesize.
Caught(r) == IF IsException(r.type) THEN "fallback" ELSE "raised"

\* The static tier without its return: the call goes on to the next tier.
AfterStaticFallsThrough(url) == "bundled"

\* The bundled tier left out: from the static tier straight to synthesis.
AfterStaticSkipsBundled(url) == IF url # <<>> THEN "return" ELSE "tts"

\* Where the static tier hands over: the yielded result ends the call.
AfterStatic(url) == IF url # <<>> THEN "return" ELSE "bundled"

\* Lines 69-78.
StaticTier ==
    /\ pc = "static"
    /\ pc' = AfterStatic(GITHUB_AUDIO_URL)
    /\ IF GITHUB_AUDIO_URL # <<>>
       THEN /\ ret' = StaticResult(GITHUB_AUDIO_URL, text)
            /\ log' = log \o <<TierStart("StaticURL"), TierYield("StaticURL")>>
       ELSE /\ ret' = ret
            /\ log' = Append(log, TierSkip("StaticURL", "not configured"))
    /\ UNCHANGED <<aside, config, tts, tmp_files, request, text, show_error, audio_data,
                   temp_file_path, error_msg, error_type, files>>

\* The bundled tier's failure taken for the last one: straight to the
\* native fallback, the synthesis tier skipped.
AfterReadSkipsLive(b, bucket) ==
    IF HaveBundled(b) /\ bucket # <<>> THEN "bundled_put" ELSE "fallback"

\* Where the bundled tier goes after the read: to the upload when a non-empty
\* file was read and a bucket is configured, else on to the synthesis tier
\* (line 137 raises without a bucket, and line 139 catches it).
AfterRead(b, bucket) == IF HaveBundled(b) /\ bucket # <<>> THEN "bundled_put" ELSE "tts"

\* Lines 80-104 and 136-140.
BundledRead ==
    /\ pc = "bundled"
    /\ \E fs \in FileSystems :
         LET b == ReadBundled(fs)
         IN  /\ files' = fs
             /\ audio_data' = b.data
             /\ pc' = AfterRead(b, S3_BUCKET)
             /\ log' = log
                  \o <<TierStart("BundledUpload")>>
                  \o (IF b.found
                      THEN <<Ev("read", "BundledUpload", audio_file_paths[b.path],
                                PLen(b.data), TRUE)>>
                      ELSE <<>>)
                  \o (IF ~HaveBundled(b) THEN <<TierFail("BundledUpload", "no file")>>
                      ELSE IF S3_BUCKET = <<>> THEN <<TierFail("BundledUpload", "no store")>>
                      ELSE <<>>)
    /\ UNCHANGED <<aside, config, tts, tmp_files, request, text, show_error,
                   temp_file_path, error_msg, error_type, ret>>

\* What boto3.client(...) may do when it is called: NoErr is success.
ClientOutcomes(called) == IF called THEN {NoErr} \cup ClientErrors ELSE {NoErr}

\* What put_object may do when it is called.
PutOutcomesIf(called) == IF called THEN PutOutcomes ELSE {NoErr}

\* Lines 106-135 and 139-140.
BundledUpload ==
    /\ pc = "bundled_put"
    /\ \E now \in ClockReadings, clientErr \in ClientOutcomes(boto3) :
         \E put \in PutOutcomesIf(boto3 /\ clientErr = NoErr) :
           LET r == BundledPut(S3_BUCKET, text, now, boto3, clientErr, put)
           IN  /\ ret' = (IF r.ok THEN r.val ELSE ret)
               /\ pc' = (IF r.ok THEN "return" ELSE "tts")
               /\ log' = log
                    \o (IF boto3 /\ clientErr = NoErr
                        THEN <<Ev("put", "BundledUpload", put.type, PLen(audio_data), put = NoErr)>>
                        ELSE <<>>)
                    \o <<IF r.ok THEN TierYield("BundledUpload")
                         ELSE TierFail("BundledUpload", "upload failed")>>
    /\ files' = NoFiles
    /\ UNCHANGED <<aside, config, tts, tmp_files, request, text, show_error, audio_data,
                   temp_file_path, error_msg, error_type>>

\* get_tts_client without `if tts is None`: a client is constructed at
\* every call.
get_tts_client_eager ==
    /\ pc = "tts"
    /\ \E clientErr \in ClientOutcomes(edge_tts /\ boto3 /\ S3_BUCKET # <<>>) :
         LET r == EdgeTTSClient(VOICE, S3_BUCKET, S3_REGION, edge_tts, boto3, clientErr)
         IN  /\ tts' = (IF r.ok THEN r.val ELSE tts)
             /\ error_msg' = (IF r.ok THEN error_msg ELSE r.msg)
             /\ error_type' = (IF r.ok THEN error_type ELSE r.type)
             /\ pc' = (IF r.ok THEN "edge" ELSE Caught(r))
             /\ log' = log
                  \o <<TierStart("LiveSynthesis"),
                       Ev("ctor", "LiveSynthesis", r.type, 0, r.ok)>>
                  \o (IF r.ok THEN <<>> ELSE <<TierFail("LiveSynthesis", "no client")>>)
    /\ files' = NoFiles
    /\ audio_data' = Payload(<<>>, 0)
    /\ UNCHANGED <<aside, config, tmp_files, request, text, show_error, temp_file_path, ret>>

\* get_tts_client, lines 46-55, called from line 145.
get_tts_client ==
    /\ pc = "tts"
    /\ IF tts.set
       THEN /\ pc' = "edge"
            /\ log' = Append(log, TierStart("LiveSynthesis"))
            /\ UNCHANGED <<tts, error_msg, error_type>>
       ELSE \E clientErr \in ClientOutcomes(edge_tts /\ boto3 /\ S3_BUCKET # <<>>) :
              LET r == EdgeTTSClient(VOICE, S3_BUCKET, S3_REGION, edge_tts, boto3, clientErr)
              IN  /\ tts' = (IF r.ok THEN r.val ELSE tts)
                  /\ error_msg' = (IF r.ok THEN error_msg ELSE r.msg)
                  /\ error_type' = (IF r.ok THEN error_type ELSE r.type)
                  /\ pc' = (IF r.ok THEN "edge" ELSE Caught(r))
                  /\ log' = log
                       \o <<TierStart("LiveSynthesis"),
                            Ev("ctor", "LiveSynthesis", r.type, 0, r.ok)>>
                       \o (IF r.ok THEN <<>> ELSE <<TierFail("LiveSynthesis", "no client")>>)
    /\ files' = NoFiles
    /\ audio_data' = Payload(<<>>, 0)
    /\ UNCHANGED <<aside, config, tmp_files, request, text, show_error, temp_file_path, ret>>

\* What may go wrong before the await: Communicate(...) or the creation of
\* the temp file raises.
StartOutcomes ==
    {[at |-> "", err |-> NoErr]}
    \cup {[at |-> a, err |-> e] : a \in {"communicate", "mktemp"}, e \in EngineErrors}

\* EdgeTTSClient.synthesize, lines 71-72, and _synthesize_async up to the
\* await of line 155.
EdgeStart ==
    /\ pc = "edge"
    /\ IF Strip(text) = <<>>
       THEN /\ error_msg' = S("Text cannot be empty")
            /\ error_type' = "ValueError"
            /\ pc' = Caught(Raise("ValueError", S("Text cannot be empty")))
            /\ log' = log \o <<Ev("raise", "LiveSynthesis", "ValueError", 0, FALSE),
                               TierFail("LiveSynthesis", "empty text")>>
            /\ UNCHANGED <<tmp_files, temp_file_path>>
       ELSE \E st \in StartOutcomes :
              IF st.err # NoErr
              THEN LET r == SynthesizeTry(WaitFor(WrapAsync(Raise(st.err.type, st.err.msg),
                                                            tts.voice, text)))
                   IN  /\ error_msg' = r.msg
                       /\ error_type' = r.type
                       /\ pc' = Caught(r)
                       /\ log' = log \o <<Ev(st.at, "LiveSynthesis", st.err.type, 0, FALSE),
                                          TierFail("LiveSynthesis", "engine")>>
                       /\ UNCHANGED <<tmp_files, temp_file_path>>
              ELSE LET path == TempName(tmp_files)
                   IN  /\ tmp_files' = tmp_files \cup {path}
                       /\ temp_file_path' = path
                       /\ pc' = "saving"
                       /\ log' = Append(log, Ev("mktemp", "LiveSynthesis", path, 0, TRUE))
                       /\ UNCHANGED <<error_msg, error_type>>
    /\ UNCHANGED <<aside, config, tts, request, text, show_error, audio_data, ret, files>>

\* _synthesize_async from the await of line 155 to its end, and lines 92-115
\* of EdgeTTSClient.synthesize.
EdgeSave ==
    /\ pc = "saving"
    /\ \E out \in SaveOutcomes(EnginePayloads) :
         LET body == SaveBody(temp_file_path, out)
             left == Finally(AfterSave(tmp_files, temp_file_path, out), temp_file_path, body)
             r    == SynthesizeTry(WaitFor(WrapAsync(body, tts.voice, text)))
         IN  /\ tmp_files' = left
             /\ audio_data' = (IF r.ok THEN r.val ELSE audio_data)
             /\ error_msg' = (IF r.ok THEN error_msg ELSE r.msg)
             /\ error_type' = (IF r.ok THEN error_type ELSE r.type)
             /\ pc' = (IF r.ok THEN "store" ELSE Caught(r))
             /\ log' = log
                  \o <<Ev("save", "LiveSynthesis", out.kind, PLen(out.data), r.ok)>>
                  \o (IF r.ok THEN <<>> ELSE <<TierFail("LiveSynthesis", "engine")>>)
    /\ temp_file_path' = ""
    /\ UNCHANGED <<aside, config, tts, request, text, show_error, ret, files>>

\* `if self.s3_client and self.s3_bucket`
HasStore(self) == self.s3_client /\ self.s3_bucket # <<>>

\* Lines 117-123 of EdgeTTSClient.synthesize and 146-159 of synthesize.
EdgeStore ==
    /\ pc = "store"
    /\ \E now \in ClockReadings, put \in PutOutcomesIf(HasStore(tts)) :
         LET r == IF HasStore(tts) THEN upload_to_s3(tts, audio_data, text, now, put)
                  ELSE create_data_uri(audio_data)
         IN  /\ ret' = (IF r.ok THEN Synth(AudioTag(r.val), text) ELSE ret)
             /\ error_msg' = (IF r.ok THEN error_msg ELSE r.msg)
             /\ error_type' = (IF r.ok THEN error_type ELSE r.type)
             /\ pc' = (IF r.ok THEN "return" ELSE Caught(r))
             /\ log' = log
                  \o <<IF HasStore(tts)
                       THEN Ev("put", "LiveSynthesis", put.type, PLen(audio_data), r.ok)
                       ELSE Ev("inline", "LiveSynthesis", "", PLen(audio_data), r.ok)>>
                  \o <<IF r.ok THEN TierYield("LiveSynthesis")
                       ELSE TierFail("LiveSynthesis",
                                     IF HasStore(tts) THEN "upload failed" ELSE "too large")>>
    /\ UNCHANGED <<aside, config, tts, tmp_files, request, text, show_error, audio_data,
                   temp_file_path, files>>

\* Lines 160-180.
Fallback ==
    /\ pc = "fallback"
    /\ ret' = NativeFallback(text, show_error, error_msg)
    /\ pc' = "return"
    /\ log' = log \o <<TierStart("NativeFallback"), TierYield("NativeFallback")>>
    /\ UNCHANGED <<aside, config, tts, tmp_files, request, text, show_error, audio_data,
                   temp_file_path, error_msg, error_type, files>>

Next ==
    \/ launch_request_handler
    \/ motivate_intent_handler
    \/ help_intent_handler
    \/ cancel_and_stop_intent_handler
    \/ fallback_handler
    \/ all_exception_handler
    \/ session_ended_request_handler
    \/ DirectCall
    \/ Resume
    \/ StaticTier
    \/ BundledRead
    \/ BundledUpload
    \/ get_tts_client
    \/ EdgeStart
    \/ EdgeSave
    \/ EdgeStore
    \/ Fallback

Spec == Init /\ [][Next]_vars

\* ------------------------------------------- _create_data_uri on its own

\* The lengths of the payloads: short ones, and those around the limit.
PayloadLens == {0, 1, 2, 3, 5, InlineLimit - 1, InlineLimit, InlineLimit + 1}

\* Payloads of those lengths: up to MaxHead bytes, then zero bytes.
Payloads ==
    {Payload(x[1], x[2] - Len(x[1])) :
        x \in {y \in SeqsUpTo({77, 255}, MaxHead) \X PayloadLens : y[2] >= Len(y[1])}}

InitInline ==
    /\ GITHUB_AUDIO_URL = DefaultAudioUrl
    /\ S3_BUCKET = <<>>
    /\ edge_tts = TRUE
    /\ boto3 = TRUE
    /\ Boot
    /\ uri_arg \in Payloads
    /\ uri_res = Ret(<<>>)
    /\ uri_done = FALSE
    /\ audio_files_cache = NoListing
    /\ list_log = <<>>

\* self._create_data_uri(uri_arg)
CallCreateDataUri ==
    /\ ~uri_done
    /\ uri_res' = create_data_uri(uri_arg)
    /\ uri_done' = TRUE
    /\ UNCHANGED <<config, tts, tmp_files, request, pc, frame, log, uri_arg,
                   audio_files_cache, list_log>>

SpecInline == InitInline /\ [][CallCreateDataUri]_vars

\* ------------------------------------------ AudioSourceCache on its own

\* Most list() calls followed in one process.
MaxListCalls == 3

\* The names the remote directory may hold, in lexicographic order.
RemoteNames == <<"1.mp3", "2.MP3", "my file (1).mp3", "notes.txt">>

\* What a fetch of the directory listing may give: a failure (network error,
\* non-2xx, malformed body) or the names of the entries.
FetchOutcomes ==
    {[ok |-> FALSE, names |-> {}]}
    \cup {[ok |-> TRUE, names |-> n] : n \in SUBSET {RemoteNames[i] : i \in DOMAIN RemoteNames}}

\* A name ending in the audio-file suffix, case-sensitive.
IsAudioName(name) ==
    Len(name) >= 4 /\ SubSeq(name, Len(name) - 3, Len(name)) = ".mp3"

IsListed(out, name) == name \in out.names /\ IsAudioName(name)

\* The listing a fetch gives: the audio names, sorted; Empty on failure.
Listing(out) ==
    IF out.ok THEN SelectSeq(RemoteNames, LAMBDA name : IsListed(out, name)) ELSE <<>>

\* A cache that stores whatever a fetch gave, an empty listing too.
PopulateAlways(cache, names) == [set |-> TRUE, names |-> names]

\* Only a non-empty listing is stored.
Populate(cache, names) ==
    IF names # <<>> THEN [set |-> TRUE, names |-> names] ELSE cache

\* One entry of the history of list(): whether it fetched, what the fetch
\* gave, and the listing returned.
Listed(fetched, out, res) == [fetched |-> fetched, out |-> out, res |-> res]

InitCache ==
    /\ GITHUB_AUDIO_URL = <<>>
    /\ S3_BUCKET = <<>>
    /\ edge_tts = TRUE
    /\ boto3 = TRUE
    /\ Boot
    /\ AsideIdle

\* AudioSourceCache.list()
list ==
    /\ Len(list_log) < MaxListCalls
    /\ IF audio_files_cache.set
       THEN /\ list_log' = Append(list_log,
                                  Listed(FALSE, [ok |-> FALSE, names |-> {}],
                                         audio_files_cache.names))
            /\ UNCHANGED audio_files_cache
       ELSE \E out \in FetchOutcomes :
              /\ audio_files_cache' = Populate(audio_files_cache, Listing(out))
              /\ list_log' = Append(list_log, Listed(TRUE, out, Listing(out)))
    /\ UNCHANGED <<config, tts, tmp_files, request, pc, frame, log, uri_arg, uri_res, uri_done>>

SpecCache == InitCache /\ [][list]_vars

\* ------------------------------------------------------------------ claims

\* Whether the string str begins (ends) with the plain text lit.
StartsWith(str, lit) ==
    /\ str # <<>>
    /\ str[1].n = 1
    /\ Len(str[1].s) >= Len(lit)
    /\ SubSeq(str[1].s, 1, Len(lit)) = lit

EndsWith(str, lit) ==
    /\ str # <<>>
    /\ str[Len(str)].n = 1
    /\ Len(str[Len(str)].s) >= Len(lit)
    /\ LET w == str[Len(str)].s
       IN  SubSeq(w, Len(w) - Len(lit) + 1, Len(w)) = lit

IsAudioTag(a) == StartsWith(a, "<audio src=\"") /\ EndsWith(a, "\"/>")

IsSpeakTag(a) == StartsWith(a, "<speak>") /\ EndsWith(a, "</speak>")

\* The running call's history holds an event op of the tier, with `what`.
Happened(op, tier, what) ==
    \E i \in DOMAIN log : log[i].op = op /\ log[i].tier = tier /\ log[i].what = what

\* The positions, in a call, at which one of its steps is due.
Running == {"static", "bundled", "bundled_put", "tts", "edge", "saving", "store", "fallback"}

\* How far along its tiers a call is at each position.
Rank(p) ==
    CASE p = "static" -> 1
      [] p = "bundled" -> 2
      [] p = "bundled_put" -> 3
      [] p = "tts" -> 4
      [] p = "edge" -> 5
      [] p = "saving" -> 6
      [] p = "store" -> 7
      [] p = "fallback" -> 8
      [] p = "return" -> 9
      [] OTHER -> 0

\* A step taken inside a call moves the call strictly forward.
Advances == pc \in Running => Rank(pc') > Rank(pc)

\* C1: whatever the text, the diagnostics setting and the outcomes of the
\* collaborators, no failure leaves synthesize, every step of a call moves it
\* strictly forward through its tiers (so it ends, by returning), and for a
\* non-empty text the audio it returns is a non-empty string that is an
\* <audio src="..."/> tag or a <speak>...</speak> tag.
C1_AlwaysReturnsATag ==
    /\ [](pc # "raised")
    /\ []((pc = "return" /\ text # <<>>) =>
            /\ CharLen(ret.audio) > 0
            /\ IsAudioTag(ret.audio) \/ IsSpeakTag(ret.audio))
    /\ [][Advances]_vars

\* C1's case: a non-blank text with diagnostics on, the engine timed out, and
\* the call returned the native tag.
C1_Witness ==
    /\ pc = "return"
    /\ text = S("Hi")
    /\ show_error
    /\ Happened("save", "LiveSynthesis", "timeout")
    /\ IsSpeakTag(ret.audio)

\* C2: with a static URL configured, synthesize returns the audio tag of
\* exactly that URL and touches nothing else: no file is read, nothing is
\* uploaded, the TTS client is not constructed and no synthesis is started.
C2_StaticUrlShortCircuits ==
    GITHUB_AUDIO_URL # <<>> =>
        /\ pc \in {"idle", "static", "return"}
        /\ pc = "return" =>
              ret = Synth(Cat3(S("<audio src=\""), GITHUB_AUDIO_URL, S("\"/>")), text)
        /\ \A i \in DOMAIN log : log[i].tier = "StaticURL" /\ log[i].op \in {"start", "yield"}
        /\ ~tts.set
        /\ tmp_files = {}

\* C2's case: a call with a blank text and diagnostics on returned the URL.
C2_Witness ==
    /\ GITHUB_AUDIO_URL # <<>>
    /\ pc = "return"
    /\ text = S("   ")
    /\ show_error
    /\ ret.audio = S("<audio src=\"https://raw.githubusercontent.com/Jarvis4everyone/alexa/main/speech.mp3\"/>")

\* The tiers of the running call in the order they were come to.
RECURSIVE TiersOf(_)
TiersOf(events) ==
    IF events = <<>> THEN <<>>
    ELSE (IF Head(events).op \in {"start", "skip"} THEN <<Head(events).tier>> ELSE <<>>)
         \o TiersOf(Tail(events))

\* C3: the cancel/stop handler's call, with no static URL, no store and the
\* synthesis tier failing, passes through every tier and returns exactly
\* <speak>Goodbye for now!</speak> with the card text Goodbye for now!.
C3_GoodbyeFallsThrough ==
    ( /\ pc = "return"
      /\ handler = "cancel"
      /\ GITHUB_AUDIO_URL = <<>>
      /\ S3_BUCKET = <<>>
      /\ \E i \in DOMAIN log : log[i].op = "fail" /\ log[i].tier = "LiveSynthesis" )
    => /\ ret.audio = S("<speak>Goodbye for now!</speak>")
       /\ ret.text = S("Goodbye for now!")
       /\ create_response(ret, FALSE).card_text = S("Goodbye for now!")
       /\ TiersOf(log) = <<"StaticURL", "BundledUpload", "LiveSynthesis", "NativeFallback">>

\* C3's case: the engine is not installed and the cancel handler's call has
\* returned.
C3_Witness ==
    /\ pc = "return"
    /\ handler = "cancel"
    /\ GITHUB_AUDIO_URL = <<>>
    /\ S3_BUCKET = <<>>
    /\ ~edge_tts
    /\ Happened("ctor", "LiveSynthesis", "ImportError")

\* The tiers the code has, and the tiers the specification lists.
CodeTiers == <<"StaticURL", "BundledUpload", "LiveSynthesis", "NativeFallback">>

SpecTiers ==
    <<"StaticURL", "DirectoryRandom", "BundledUpload", "LiveSynthesis", "NativeFallback">>

\* In the running call the tiers of `order` are come to in that order: a tier
\* is come to only after every tier before it has failed or was skipped as
\* not configured, a tier that yields ends the call, and the native <speak>
\* fallback is returned only after LiveSynthesis was started and has failed.
InPriorityOrder(order) ==
    /\ \A i \in DOMAIN log :
         log[i].op \in {"start", "skip"} =>
            \E k \in DOMAIN order :
               /\ order[k] = log[i].tier
               /\ \A h \in 1..(k - 1) :
                     \E j \in 1..(i - 1) :
                        log[j].tier = order[h] /\ log[j].op \in {"fail", "skip"}
               /\ \A j \in 1..(i - 1) :
                     log[j].op \in {"start", "skip"} => log[j].tier # order[k]
    /\ \A i \in DOMAIN log : log[i].op = "yield" => i = Len(log) /\ pc = "return"
    /\ pc = "return" => log # <<>> /\ log[Len(log)].op = "yield"
    /\ (pc = "return" /\ IsSpeakTag(ret.audio)) =>
          \E i, j \in DOMAIN log :
             /\ i < j
             /\ log[i].op = "start" /\ log[i].tier = "LiveSynthesis"
             /\ log[j].op = "fail" /\ log[j].tier = "LiveSynthesis"

\* C4, as stated: the tiers are come to in the order StaticURL,
\* DirectoryRandom, BundledUpload, LiveSynthesis, NativeFallback, each only
\* after every higher one has failed or was not configured.
C4_FiveTiersInOrder == InPriorityOrder(SpecTiers)

\* C4, amended: synthesize has four tiers and no DirectoryRandom tier; they
\* are come to strictly in the order StaticURL, BundledUpload, LiveSynthesis,
\* NativeFallback, each only after every higher one has failed or was not
\* configured; the first tier that yields ends the call; and the native
\* <speak> fallback is returned only after LiveSynthesis has failed.
C4_FourTiersInOrder ==
    /\ InPriorityOrder(CodeTiers)
    /\ \A i \in DOMAIN log : \E k \in DOMAIN CodeTiers : log[i].tier = CodeTiers[k]

\* C4's case: a call that came to all four tiers and returned.
C4_Witness ==
    /\ pc = "return"
    /\ TiersOf(log) = CodeTiers
    /\ Happened("fail", "BundledUpload", "upload failed")
    /\ Happened("fail", "LiveSynthesis", "too large")

\* C5, as stated: when the upload of the synthesized bytes fails, the same
\* bytes are inlined next, so a failed upload of at most 100,000 bytes still
\* returns an <audio> tag with a data URI and not the <speak> fallback.
C5_FailedUploadInlines ==
    \A i \in DOMAIN log :
       ( /\ pc = "return"
         /\ log[i].op = "put" /\ log[i].tier = "LiveSynthesis" /\ ~log[i].ok
         /\ log[i].len > 0 /\ log[i].len <= 100000 )
       => /\ \E j \in DOMAIN log : j > i /\ log[j].op = "inline"
          /\ StartsWith(ret.audio, "<audio src=\"data:audio/mpeg;base64,")

\* The text after the first k characters of the first piece of str.
DropPrefix(str, k) ==
    Cat(S(SubSeq(str[1].s, k + 1, Len(str[1].s))), SubSeq(str, 2, Len(str)))

\* The value of a base64 character.
B64Val(c) == (CHOOSE i \in DOMAIN Alphabet : Alphabet[i] = c) - 1

\* Four base64 characters back to three bytes, or to fewer when "=" padded.
Dec4(q) ==
    LET v1 == B64Val(SubSeq(q, 1, 1))
        v2 == B64Val(SubSeq(q, 2, 2))
        b1 == v1 * 4 + (v2 \div 16)
    IN  IF SubSeq(q, 3, 3) = "=" THEN <<b1>>
        ELSE LET v3 == B64Val(SubSeq(q, 3, 3))
                 b2 == (v2 % 16) * 16 + (v3 \div 4)
             IN  IF SubSeq(q, 4, 4) = "=" THEN <<b1, b2>>
                 ELSE <<b1, b2, (v3 % 4) * 64 + B64Val(SubSeq(q, 4, 4))>>

RECURSIVE DecText(_)
\* A plain base64 text back to its bytes.
DecText(w) ==
    IF Len(w) = 0 THEN <<>>
    ELSE Dec4(SubSeq(w, 1, 4)) \o DecText(SubSeq(w, 5, Len(w)))

\* The payload p followed by the bytes bs.
Extend(p, bs) ==
    IF \A i \in DOMAIN bs : bs[i] = 0 THEN Payload(p.head, p.zeros + Len(bs))
    ELSE Payload(p.head \o Zeros(p.zeros) \o bs, 0)

RECURSIVE B64Decode(_)
\* base64.b64decode of a string: piece by piece, a run of "AAAA" being a run
\* of three zero bytes each.
B64Decode(str) ==
    IF str = <<>> THEN Payload(<<>>, 0)
    ELSE LET init == B64Decode(SubSeq(str, 1, Len(str) - 1))
             tok  == str[Len(str)]
         IN  IF tok.s = "AAAA" THEN Payload(init.head, init.zeros + 3 * tok.n)
             ELSE Extend(init, DecText(tok.s))

\* C6: _create_data_uri returns a data:audio/mpeg;base64, URI exactly when
\* the payload has at most 100,000 bytes, raises the too-large error
\* otherwise, and the base64 text of the URI decodes to the bytes given.
C6_InlineUpToLimit ==
    uri_done =>
       /\ uri_res.ok <=> PLen(uri_arg) <= 100000
       /\ ~uri_res.ok =>
             /\ PLen(uri_arg) >= 100001
             /\ uri_res.msg = S("Audio file too large for data URI. Please configure S3 bucket.")
       /\ uri_res.ok =>
             /\ StartsWith(uri_res.val, "data:audio/mpeg;base64,")
             /\ Canon(B64Decode(DropPrefix(uri_res.val, 23))) = Canon(uri_arg)

\* C6's case: a payload of exactly 100,000 bytes, not all zero, was inlined.
C6_Witness ==
    /\ uri_done
    /\ PLen(uri_arg) = 100000
    /\ uri_arg.head = <<77, 255>>
    /\ uri_res.ok

C8_TimeoutDistinguished ==
    pc = "fallback" =>
       /\ (error_msg = S("EdgeTTS synthesis timed out after 15 seconds. This might indicate a network issue or the service is slow."))
             <=> Happened("save", "LiveSynthesis", "timeout")
       /\ (\E i \in DOMAIN log : log[i].op \in {"communicate", "mktemp", "save"}
                                  /\ ~log[i].ok /\ log[i].what # "timeout")
             => StartsWith(error_msg, "EdgeTTS synthesis failed: ")

\* C8's case: the engine itself raised a TimeoutError before the save, and
\* the failure reported is the generic one.
C8_Witness ==
    /\ pc = "fallback"
    /\ Happened("communicate", "LiveSynthesis", "TimeoutError")
    /\ StartsWith(error_msg, "EdgeTTS synthesis failed: EdgeTTS synthesis error: Connection timeout")

\* C9: list() memoizes the listing. The first call that gets a non-empty
\* listing is the one that fetched it; no call after it fetches, and each
\* returns that listing; a call whose fetch failed or gave no audio name
\* leaves the cache unset, so the call after it fetches again.
C9_ListMemoizes ==
    /\ \A i \in DOMAIN list_log :
          /\ (\A j \in 1..(i - 1) : list_log[j].res = <<>>) => list_log[i].fetched
          /\ \A j \in 1..(i - 1) :
                list_log[j].res # <<>> =>
                   ~list_log[i].fetched /\ list_log[i].res = list_log[j].res
          /\ (list_log[i].fetched /\ (~list_log[i].out.ok \/ list_log[i].res = <<>>)) =>
                (i < Len(list_log) => list_log[i + 1].fetched)
    /\ audio_files_cache.set <=> \E i \in DOMAIN list_log : list_log[i].res # <<>>
    /\ Cardinality({i \in DOMAIN list_log : list_log[i].fetched /\ list_log[i].res # <<>>}) <= 1

\* C9's case: a failed fetch, then a fetch that gave two audio names among
\* other entries, then a call answered from the cache.
C9_Witness ==
    /\ Len(list_log) = 3
    /\ list_log[1].fetched /\ ~list_log[1].out.ok
    /\ list_log[2].fetched /\ list_log[2].out.names = {"1.mp3", "2.MP3", "my file (1).mp3"}
    /\ list_log[2].res = <<"1.mp3", "my file (1).mp3">>
    /\ ~list_log[3].fetched /\ list_log[3].res = list_log[2].res

\* The percent-encoded names of a non-empty directory listing.
ListedEncoded == {"1.mp3", "my%20file%20%281%29.mp3"}

\* C10, as stated: with no static URL and a non-empty directory listing,
\* synthesize returns an <audio> tag whose URL names one of the listed files,
\* percent-encoded, before the bundled file, the store or the engine is
\* touched.
C10_DirectoryRandomTier ==
    (pc = "return" /\ GITHUB_AUDIO_URL = <<>>) =>
       /\ \E name \in ListedEncoded :
             /\ StartsWith(ret.audio, "<audio src=\"")
             /\ EndsWith(ret.audio, "/" \o name \o "\"/>")
       /\ \A i \in DOMAIN log : log[i].tier \in {"StaticURL", "DirectoryRandom"}

\* C10, amended: synthesize has no DirectoryRandom tier: it fetches no
\* directory listing and invokes no selector. With no static URL configured
\* the tier after StaticURL is BundledUpload, and the call returns an <audio>
\* tag of an object-store URL under tts/ or of a data URI, or the <speak>
\* fallback.
C10_NoDirectoryTier ==
    /\ \A i \in DOMAIN log : log[i].tier # "DirectoryRandom"
    /\ (GITHUB_AUDIO_URL = <<>> /\ pc \notin {"idle", "static", "bundled"}) =>
          /\ Len(log) >= 2
          /\ log[1] = TierSkip("StaticURL", "not configured")
          /\ log[2] = TierStart("BundledUpload")
    /\ (pc = "return" /\ GITHUB_AUDIO_URL = <<>>) =>
          \/ IsSpeakTag(ret.audio)
          \/ /\ StartsWith(ret.audio, "<audio src=\"https://my-bucket.s3.us-east-1.amazonaws.com/tts/")
             /\ EndsWith(ret.audio, ".mp3\"/>")
             /\ S3_BUCKET = S("my-bucket")
          \/ /\ StartsWith(ret.audio, "<audio src=\"data:audio/mpeg;base64,")
             /\ EndsWith(ret.audio, "\"/>")
             /\ ~HasStore(tts)

\* C10's case: no static URL, the bundled file was read and uploaded, and
\* the call returned its object-store URL.
C10_Witness ==
    /\ pc = "return"
    /\ GITHUB_AUDIO_URL = <<>>
    /\ Happened("read", "BundledUpload", "/var/task/lambda/speech.mp3")
    /\ StartsWith(ret.audio, "<audio src=\"https://my-bucket.s3.us-east-1.amazonaws.com/tts/speech_1700000001_")

\* The characters of a string of one plain piece.
Plain(str) == IF str = <<>> THEN "" ELSE str[1].s

\* The running call ended in the native fallback.
EndedInFallback == pc = "return" /\ Happened("start", "NativeFallback", "")

\* C11, as stated: with diagnostics on and the native fallback, the cause is
\* cut to its first 100 characters in the spoken markup and in the card
\* text; neither carries a longer cause whole.
C11_CauseTruncatedInBoth ==
    (EndedInFallback /\ show_error) =>
       /\ Plain(ret.audio) = "<speak>" \o Plain(text) \o ". Error: EdgeTTS Error: "
                             \o SubSeq(Plain(error_msg), 1, Min(100, Len(Plain(error_msg))))
                             \o "</speak>"
       /\ Plain(ret.text) = Plain(text) \o " - ERROR: "
                            \o SubSeq(Plain(error_msg), 1, Min(100, Len(Plain(error_msg))))

\* C11, amended: with diagnostics on and the native fallback, the cause is
\* cut to its first 100 characters in the spoken markup only; the card text
\* carries the whole cause, however long.
C11_CauseTruncatedInSpeech ==
    (EndedInFallback /\ show_error) =>
       /\ Len(ret.audio) = 1 /\ Len(ret.text) = 1
       /\ Plain(ret.audio) = "<speak>" \o Plain(text) \o ". Error: EdgeTTS Error: "
                             \o SubSeq(Plain(error_msg), 1, Min(100, Len(Plain(error_msg))))
                             \o "</speak>"
       /\ Plain(ret.text) = Plain(text) \o " - ERROR: " \o Plain(error_msg)

\* C11's case: diagnostics on, a cause of more than 100 characters, and the
\* native fallback returned.
C11_Witness ==
    /\ EndedInFallback
    /\ show_error
    /\ handler = "launch"
    /\ Len(Plain(error_msg)) > 100
    /\ Len(Plain(ret.text)) > Len(Plain(text)) + 110

\* The last event of the running call is the failure `why` of the tier.
JustFailed(tier, why) ==
    log # <<>> /\ log[Len(log)] = TierFail(tier, why)

\* The candidate paths that hold a readable file that is not empty.
GoodPaths == {i \in DOMAIN files : files[i].kind = "file" /\ PLen(files[i].data) > 0}

\* C12, as stated: right after the candidate paths were tried, the bytes the
\* bundled tier goes on with are those of the earliest path that holds a
\* readable, non-empty file, whatever the earlier paths hold; the tier
\* fails for want of a file only when no path holds one.
C12_FirstNonEmptyFileWins ==
    ( \/ pc = "bundled_put"
      \/ pc = "tts" /\ (JustFailed("BundledUpload", "no file")
                        \/ JustFailed("BundledUpload", "no store")) )
    => IF GoodPaths = {}
       THEN JustFailed("BundledUpload", "no file")
       ELSE /\ audio_data = files[CHOOSE i \in GoodPaths : \A j \in GoodPaths : i <= j].data
            /\ ~JustFailed("BundledUpload", "no file")

\* C13: when the bundled file was found and no store is configured, or its
\* upload failed, the tier has produced no location (nothing is inlined,
\* nothing is returned), nothing is raised to the caller, and the call goes
\* on with LiveSynthesis, not with the native fallback.
C13_BundledFailureGoesOnToLive ==
    \A i \in DOMAIN log :
       (log[i].tier = "BundledUpload" /\ log[i].op = "fail"
            /\ log[i].what \in {"no store", "upload failed"})
       => /\ \A j \in DOMAIN log :
                log[j].tier = "BundledUpload" => log[j].op \notin {"inline", "yield"}
          /\ \A j \in 1..i : log[j].op # "inline"
          /\ pc # "raised"
          /\ IF i = Len(log)
             THEN pc = "tts" /\ ret = NoSynth
             ELSE log[i + 1] = TierStart("LiveSynthesis")

\* C13's case: the bundled file was read, no store is configured, and the
\* synthesis tier has been started.
C13_Witness ==
    /\ S3_BUCKET = <<>>
    /\ \E i \in DOMAIN log : log[i].op = "read" /\ log[i].len > 100000
    /\ Happened("fail", "BundledUpload", "no store")
    /\ pc = "edge"

\* The save of the running call gave no bytes: the file is empty, or the
\* read of it returned nothing.
ZeroByteResult ==
    \E i \in DOMAIN log :
       /\ log[i].op = "save"
       /\ \/ log[i].what = "empty_read"
          \/ log[i].what = "saved" /\ log[i].len = 0

TimedOutMsg ==
    "EdgeTTS synthesis timed out after 15 seconds. This might indicate a network issue or the service is slow."

\* C14, as stated: a zero-byte synthesis result fails with an outcome that is
\* neither the timeout nor the generic "synthesis failed" one, and it never
\* reaches upload or inlining.
C14_EmptyResultIsItsOwnOutcome ==
    (pc = "fallback" /\ ZeroByteResult) =>
       /\ Plain(error_msg) # TimedOutMsg
       /\ ~StartsWith(error_msg, "EdgeTTS synthesis failed: ")
       /\ \A i \in DOMAIN log :
             log[i].tier = "LiveSynthesis" => log[i].op \notin {"put", "inline"}

\* C14, amended: a zero-byte synthesis result is reported through the generic
\* "EdgeTTS synthesis failed: ..." failure, whose cause names the empty file
\* or the empty read; it differs from the timeout failure, and it never
\* reaches upload or inlining.
C14_EmptyResultIsAGenericFailure ==
    (pc \in {"fallback", "return", "store"} /\ ZeroByteResult) =>
       /\ pc # "store"
       /\ Plain(error_msg) # TimedOutMsg
       /\ \/ StartsWith(error_msg, "EdgeTTS synthesis failed: EdgeTTS synthesis error: File was created but is empty (0 bytes). Voice: en-CA-LiamNeural, Text length: ")
          \/ StartsWith(error_msg, "EdgeTTS synthesis failed: EdgeTTS synthesis error: File exists but read returned empty data. File size: ")
       /\ \A i \in DOMAIN log :
             log[i].tier = "LiveSynthesis" => log[i].op \notin {"put", "inline"}

\* C14's case: the engine saved an empty file and the tier has failed.
C14_Witness ==
    /\ pc = "fallback"
    /\ Happened("save", "LiveSynthesis", "saved")
    /\ ZeroByteResult
    /\ tmp_files = {}

\* EdgeTTSClient.synthesize has just failed, for the reason `why`.
SynthesizeFailed(why) == pc = "fallback" /\ JustFailed("LiveSynthesis", why)

\* The failure that left EdgeTTSClient.synthesize is a wrapped one: a plain
\* Exception whose message is one of the wrappers' around the cause.
IsWrapped ==
    /\ error_type = "Exception"
    /\ \/ Plain(error_msg) = TimedOutMsg
       \/ StartsWith(error_msg, "EdgeTTS synthesis failed: ")
       \/ StartsWith(error_msg, "Failed to upload audio to S3: ")
       \/ Plain(error_msg) = "Audio file too large for data URI. Please configure S3 bucket."

\* C15, as stated: every failure that leaves EdgeTTSClient.synthesize is a
\* wrapped failure, the rejection of an empty text and the store errors that
\* are not a ClientError included.
C15_EveryFailureWrapped ==
    \A why \in {"empty text", "engine", "upload failed", "too large"} :
       SynthesizeFailed(why) => IsWrapped

\* C15, amended: every failure of the engine that leaves
\* EdgeTTSClient.synthesize is a wrapped Exception carrying the message of
\* its cause, and so is a ClientError of the upload; the rejection of an
\* empty text leaves it as the ValueError it was raised as, and an error of
\* the upload that is not a ClientError leaves it with its own type and
\* message.
C15_EngineFailuresWrapped ==
    /\ SynthesizeFailed("engine") =>
          /\ IsWrapped
          /\ \A e \in EngineErrors :
                (\E i \in DOMAIN log : log[i].op \in {"communicate", "mktemp"}
                                        /\ log[i].what = e.type)
                => Plain(error_msg) = "EdgeTTS synthesis failed: EdgeTTS synthesis error: "
                                      \o Plain(e.msg) \o ". Voice: en-CA-LiamNeural, Text length: "
                                      \o ToString(Len(Plain(text)))
          /\ Happened("save", "LiveSynthesis", "save_error") =>
                \E e \in EngineErrors :
                   Plain(error_msg) = "EdgeTTS synthesis failed: EdgeTTS synthesis error: Failed to save audio file: "
                                      \o Plain(e.msg) \o ". Voice: en-CA-LiamNeural, Text length: "
                                      \o ToString(Len(Plain(text)))
    /\ SynthesizeFailed("too large") => IsWrapped
    /\ SynthesizeFailed("empty text") =>
          error_type = "ValueError" /\ Plain(error_msg) = "Text cannot be empty"
    /\ SynthesizeFailed("upload failed") =>
          \E e \in PutErrors :
             /\ Happened("put", "LiveSynthesis", e.type)
             /\ IF e.type = "ClientError"
                THEN /\ error_type = "Exception"
                     /\ Plain(error_msg) = "Failed to upload audio to S3: " \o Plain(e.msg)
                ELSE error_type = e.type /\ error_msg = e.msg

\* C15's case: put_object raised an error that is not a ClientError and it
\* has left EdgeTTSClient.synthesize.
C15_Witness ==
    /\ SynthesizeFailed("upload failed")
    /\ Happened("put", "LiveSynthesis", "EndpointConnectionError")
    /\ error_type = "EndpointConnectionError"

\* A handler finishes: its last synthesize call has returned and the
\* response is built.
Finishes == pc = "return" /\ pc' = "idle"

\* C16, as stated: every handler that gives a reprompt has called synthesize
\* twice, and the reprompt is the result of the second call.
C16_RepromptFromSecondCall ==
    [][(Finishes /\ response'.reprompt # <<>>) =>
          /\ stage = 2
          /\ response'.reprompt = ret.audio
          /\ response'.speak = first.audio]_vars

\* C16, amended: fallback_handler calls synthesize twice, for the speech and
\* for the reprompt text, and its reprompt is the result of the second
\* call; all_exception_handler calls synthesize once and uses that one
\* result as the speech and as the reprompt; no other handler gives a
\* reprompt.
C16_RepromptPerHandler ==
    [][(Finishes /\ response'.reprompt # <<>>) =>
          \/ /\ handler = "fallback"
             /\ stage = 2
             /\ text = S("Ask me to say something.")
             /\ response'.reprompt = ret.audio
             /\ response'.speak = first.audio
             /\ first.text = S("Sorry; I can't help with that. Only you can help you. You can ask me to motivate you.")
          \/ /\ handler = "exception"
             /\ stage = 1
             /\ response'.reprompt = ret.audio
             /\ response'.speak = ret.audio]_vars

\* C16's case: the fallback handler has finished, with a speech from its
\* first call and a reprompt from its second.
C16_Witness ==
    /\ pc = "idle"
    /\ response.speak = S("<speak>Sorry; I can't help with that. Only you can help you. You can ask me to motivate you.</speak>")
    /\ response.reprompt = S("<speak>Ask me to say something.</speak>")

\* C17, as stated: on a launch or motivate request the audio and the card
\* text that synthesize returns carry no failure cause: the card text is the
\* response text and a <speak> fallback holds the response text only.
C17_NoCauseOnLaunchOrMotivate ==
    (pc = "return" /\ handler \in {"launch", "motivate"}) =>
       /\ ret.text = RESPONSE
       /\ IsSpeakTag(ret.audio) =>
             Plain(ret.audio) = "<speak>You're good enough, you're smart enough, and dog gone it, people like you!</speak>"

\* get_tts_client is called in this step.
CallsGetClient == pc = "tts" /\ pc' # "tts"

\* C18: the client is built lazily. A call of get_tts_client with the global
\* unset constructs a client: a failed construction leaves the global unset
\* and raises, so that the next call constructs again; a successful one
\* sets the global. A call with the global set returns it and constructs
\* nothing; nothing else changes the global.
C18_LazyClient ==
    [][/\ ~CallsGetClient => tts' = tts
       /\ (CallsGetClient /\ tts.set) =>
             /\ tts' = tts
             /\ pc' = "edge"
             /\ \A i \in DOMAIN log' : log'[i].op # "ctor"
       /\ (CallsGetClient /\ ~tts.set) =>
             /\ Len(log') = Len(log) + (IF pc' = "edge" THEN 2 ELSE 3)
             /\ LET ctor == log'[Len(log) + 2]
                IN  /\ ctor.op = "ctor"
                    /\ ctor.ok => tts'.set /\ tts'.voice = "en-CA-LiamNeural" /\ pc' = "edge"
                    /\ ~ctor.ok => /\ tts' = tts
                                   /\ pc' = "fallback"
                                   /\ error_type' = ctor.what
                                   /\ error_type' \in {"ImportError", "InvalidRegionError"}]_vars

\* C18's case: a call of synthesize got the client that an earlier call had
\* constructed, with its store client, and constructed nothing.
C18_Witness ==
    /\ pc = "edge"
    /\ tts.set
    /\ tts.s3_client
    /\ \A i \in DOMAIN log : log[i].op # "ctor"

\* C19: with diagnostics off the card text synthesize returns is the input
\* text, whichever tier gave the result, and a native fallback is exactly
\* <speak> + text + </speak>, with no cause.
C19_CardTextIsInput ==
    (pc = "return" /\ ~show_error) =>
       /\ ret.text = text
       /\ EndedInFallback =>
             /\ Len(ret.audio) = 1
             /\ Plain(ret.audio) = "<speak>" \o Plain(text) \o "</speak>"

\* C19's case: a motivate request with diagnostics off whose synthesis tier
\* failed with a cause, and the native fallback returned.
C19_Witness ==
    /\ EndedInFallback
    /\ ~show_error
    /\ handler = "motivate"
    /\ error_msg # <<>>
    /\ ret.text = RESPONSE

\* C20: nothing empty is stored or inlined. Every put to the store and every
\* data URI is of at least one byte: a put of the bundled tier is of the
\* bytes just read, a put or a data URI of the synthesis tier is of the
\* bytes a successful save gave, and after a save that failed or timed out
\* there is neither.
C20_NothingFromEmptyPayload ==
    \A i \in DOMAIN log :
       log[i].op \in {"put", "inline"} =>
          /\ log[i].len >= 1
          /\ log[i].tier = "BundledUpload" =>
                /\ log[i].op = "put"
                /\ \E j \in 1..(i - 1) : log[j].op = "read" /\ log[j].len = log[i].len
          /\ log[i].tier = "LiveSynthesis" =>
                /\ \E j \in 1..(i - 1) :
                      log[j].op = "save" /\ log[j].ok /\ log[j].len = log[i].len
                /\ \A j \in DOMAIN log : log[j].op = "save" => log[j].ok

\* C20's case: the bundled file found was empty and was not uploaded, though
\* a store is configured; the synthesized byte was.
C20_Witness ==
    /\ pc = "return"
    /\ S3_BUCKET # <<>>
    /\ \E i \in DOMAIN log : log[i].op = "read" /\ log[i].len = 0
    /\ \A i \in DOMAIN log : log[i].tier = "BundledUpload" => log[i].op # "put"
    /\ \E i \in DOMAIN log : log[i].op = "put" /\ log[i].len = 1 /\ log[i].ok

=============================================================================
